---- MODULE Spec2Model ----
(***************************************************************************)
(* Hollow Creek (game.js): the animatronic AI and the night clock.         *)
(*                                                                         *)
(* Time is the value of Date.now(), in milliseconds, measured from the     *)
(* instant at which the exploration starts.  Multipliers of NIGHT_SPEED    *)
(* are kept in hundredths (1.6 is 160), so every comparison of the source  *)
(* is made in exact integer arithmetic: all products baseInterval * speed  *)
(* and interval * 0.45 of the source are exact in IEEE doubles as well.    *)
(***************************************************************************)
EXTENDS Integers, Sequences, FiniteSets, TLC

(* ------------------------------ bounds -------------------------------- *)
\* Last instant at which a frame, a tap or a menu click is explored.
MaxTime == 0
\* Number of New Game / Continue clicks explored in one behaviour.
MaxGames == 2

(* --------------------------- program constants ------------------------ *)
\* JavaScript null (monitorSingle); camera ids are 1..7.
null == 0

\* Object.keys(animDefs), in insertion order.
Names == <<"vale", "patch", "lulla", "rust">>

NameSet == {Names[i] : i \in 1..Len(Names)}

animDefs ==
  [vale  |-> [allowed |-> <<1, 3, 5>>,    start |-> 1, baseInterval |-> 25000, activeFrom |-> 3],
   patch |-> [allowed |-> <<1, 2, 4>>,    start |-> 1, baseInterval |-> 28000, activeFrom |-> 2],
   lulla |-> [allowed |-> <<1, 3, 4, 5>>, start |-> 1, baseInterval |-> 32000, activeFrom |-> 1],
   rust  |-> [allowed |-> <<6>>,          start |-> 6, baseInterval |-> 42000, activeFrom |-> 5]]

\* The camera of each location rule: a.cam === 3 (vale), a.cam === 6 (patch),
\* a.cam === 3 (lulla).
TriggerCam == [vale |-> 3, patch |-> 6, lulla |-> 3]

\* camPositions[*].id: the thumbnails a tap can hit.
CamIds == 1..7

\* Mutant of NIGHT_SPEED: night 5 keeps the multiplier 1.0.
NIGHT_SPEED_Flat5 == [n \in 1..7 |->
  CASE n = 1 -> 160 [] n = 2 -> 125 [] n = 3 -> 100 [] n = 4 -> 95
    [] n = 5 -> 100 [] n = 6 -> 60  [] n = 7 -> 50]

\* Mutant of NIGHT_SPEED: the table upside down, later nights slower.
NIGHT_SPEED_Reversed == [n \in 1..7 |->
  CASE n = 1 -> 50 [] n = 2 -> 60 [] n = 3 -> 85 [] n = 4 -> 95
    [] n = 5 -> 100 [] n = 6 -> 125 [] n = 7 -> 160]

\* The difficulty table, in hundredths.
NIGHT_SPEED == [n \in 1..7 |->
  CASE n = 1 -> 160 [] n = 2 -> 125 [] n = 3 -> 100 [] n = 4 -> 95
    [] n = 5 -> 85  [] n = 6 -> 60  [] n = 7 -> 50]

\* setInterval period of the hour ticker.
HOUR_MS == 90000
\* setTimeout delay of the breach auto-resolve.
BREACH_MS == 2200
\* Mutant of UNSEEN_MS: a threshold of 60 s.
UNSEEN_MS_Doubled == 2 * 30000

\* Rust's unseen threshold.
UNSEEN_MS == 30000
\* Floor of the move interval.
MIN_INTERVAL_MS == 700

Max(a, b) == IF a >= b THEN a ELSE b

Min(a, b) == IF a <= b THEN a ELSE b

(* -------------------------------- state ------------------------------- *)
VARIABLES
  now,             \* Date.now()
  started, inMenu,
  night, hour, power,
  anims,           \* name -> [cam, lastMove, lastSeen, inOffice, active]
  monitorOpen, monitorSingle,
  doorLeftClosed, doorRightClosed,
  timeouts,        \* pending setTimeout callbacks of triggerEntry: <<[name, due, game]>>
  tickers,         \* due instants of the installed hour setIntervals
  loops,           \* running requestAnimationFrame loops
  pendingBegin,    \* beginGamePlay calls suspended at `await preloadAll()`
  entryLog         \* console 'ENTRY:' lines written by the latest step

vars == <<now, started, inMenu, night, hour, power, anims, monitorOpen,
          monitorSingle, doorLeftClosed, doorRightClosed, timeouts, tickers,
          loops, pendingBegin, entryLog>>

inputs == <<monitorOpen, monitorSingle, doorLeftClosed, doorRightClosed>>

clock == <<night, hour, power>>

\* (NIGHT_SPEED[night] || 1.0), in hundredths.
NightSpeed(n) == IF n \in DOMAIN NIGHT_SPEED THEN NIGHT_SPEED[n] ELSE 100

\* Math.max(700, a.baseInterval * (NIGHT_SPEED[night] || 1.0)), in hundredths of a ms.
Interval100(a, n) == Max(MIN_INTERVAL_MS * 100, animDefs[a].baseInterval * NightSpeed(n))

\* Mutant of ActiveAt: active from the night after activeFrom.
ActiveAfter(a, n) == n > animDefs[a].activeFrom

\* night >= animDefs[k].activeFrom
ActiveAt(a, n) == n >= animDefs[a].activeFrom

\* The anims objects as built at script load, at instant t.
NewAnims(t) == [a \in NameSet |->
  [cam |-> animDefs[a].start, lastMove |-> t, inOffice |-> FALSE,
   active |-> FALSE, lastSeen |-> t]]

Init ==
  /\ now = 0
  /\ started = FALSE /\ inMenu = TRUE
  /\ night = 1 /\ hour = 0 /\ power = 100
  /\ anims = NewAnims(0)
  /\ monitorOpen = FALSE /\ monitorSingle = null
  /\ doorLeftClosed = FALSE /\ doorRightClosed = FALSE
  /\ timeouts = <<>> /\ tickers = <<>>
  /\ loops = 0 /\ pendingBegin = 0
  /\ entryLog = <<>>

\* Hour ticks fired before the exploration starts.
StartTicks == {15, 31, 55}

\* Time since the latest frame in a state of Paused.
SinceFrame == 31000

\* Milliseconds since beginGamePlay installed the ticker, when its tick
\* number k + 1 is due.
Elapsed(k) == (k + 1) * HOUR_MS

\* The clock after k hour ticks of a game.
NightAfter(k) == Min(7, 1 + k \div 8)

HourAfter(k) == k % 8

\* A power level k ticks can leave: their draws summed to 3k + 5.
PowerAfter(k) == Max(0, 95 - 3 * k)

\* A game begun at script load, k hour ticks later, the tab in the
\* background ever since (requestAnimationFrame suspended, timers running):
\* no frame was drawn.  The exploration starts lead ms before instant 0, when
\* the next hour tick is due.
Background(k, lead) ==
  /\ now = 0 - lead
  /\ started = TRUE /\ inMenu = FALSE
  /\ night = NightAfter(k) /\ hour = HourAfter(k) /\ power = PowerAfter(k)
  /\ anims = [a \in NameSet |->
        [NewAnims(0 - lead - Elapsed(k))[a] EXCEPT !.active = ActiveAt(a, NightAfter(k))]]
  /\ monitorOpen = FALSE /\ monitorSingle = null
  /\ doorLeftClosed = FALSE /\ doorRightClosed = FALSE
  /\ timeouts = <<>> /\ tickers = <<0 - lead>>
  /\ loops = 1 /\ pendingBegin = 0
  /\ entryLog = <<>>

\* As Background(k, lead), but one frame was drawn SinceFrame ms before the
\* start: it relocated every active agent, each draw giving the agent's
\* start location.
Paused(k, lead) ==
  /\ now = 0 - lead
  /\ started = TRUE /\ inMenu = FALSE
  /\ night = NightAfter(k) /\ hour = HourAfter(k) /\ power = PowerAfter(k)
  /\ anims = [a \in NameSet |->
        IF ActiveAt(a, NightAfter(k))
          THEN [NewAnims(0 - lead - SinceFrame)[a] EXCEPT !.active = TRUE]
          ELSE NewAnims(0 - lead - Elapsed(k))[a]]
  /\ monitorOpen = FALSE /\ monitorSingle = null
  /\ doorLeftClosed = FALSE /\ doorRightClosed = FALSE
  /\ timeouts = <<>> /\ tickers = <<0 - lead>>
  /\ loops = 1 /\ pendingBegin = 0
  /\ entryLog = <<>>

\* Time between the latest frame and the start, in the states of Hidden.
HiddenFor == {13000, 19000, 29000}

\* As Paused(k, lead), but the one frame was drawn since ms before the start
\* with the right door open, and its draws took vale and lulla to camera 3:
\* both entered the office, and their timers fired 2200 ms later (timers run
\* in a background tab, frames do not).
Hidden(k, lead, since) ==
  /\ now = 0 - lead
  /\ started = TRUE /\ inMenu = FALSE
  /\ night = NightAfter(k) /\ hour = HourAfter(k) /\ power = PowerAfter(k)
  /\ anims = [a \in NameSet |->
        IF ~ActiveAt(a, NightAfter(k))
          THEN NewAnims(0 - lead - Elapsed(k))[a]
          ELSE IF a \in {"vale", "lulla"}
            THEN [cam |-> TriggerCam[a], lastMove |-> 0 - lead - since + BREACH_MS,
                  inOffice |-> FALSE, active |-> TRUE, lastSeen |-> 0 - lead - since]
            ELSE [NewAnims(0 - lead - since)[a] EXCEPT !.active = TRUE]]
  /\ monitorOpen = FALSE /\ monitorSingle = null
  /\ doorLeftClosed = FALSE /\ doorRightClosed = FALSE
  /\ timeouts = <<>> /\ tickers = <<0 - lead>>
  /\ loops = 1 /\ pendingBegin = 0
  /\ entryLog = <<>>

(* ------------------------- menu and game start ------------------------ *)
\* Calls of beginGamePlay made so far (each installs one ticker and one loop).
Games == Len(tickers) + pendingBegin

\* Menu click on 'new' or 'continue': startNewGame up to the await of beginGamePlay.
StartNewGame ==
  /\ now <= MaxTime
  /\ Games < MaxGames
  /\ inMenu' = FALSE
  /\ started' = TRUE
  /\ night' = 1 /\ hour' = 0 /\ power' = 100
  /\ pendingBegin' = pendingBegin + 1
  /\ entryLog' = <<>>
  /\ UNCHANGED <<now, anims, inputs, timeouts, tickers, loops>>

\* beginGamePlay resumed after `await preloadAll()`.
BeginGamePlay ==
  /\ pendingBegin > 0
  /\ pendingBegin' = pendingBegin - 1
  /\ anims' = [a \in NameSet |-> [anims[a] EXCEPT !.active = ActiveAt(a, night)]]
  /\ tickers' = Append(tickers, now + HOUR_MS)
  /\ loops' = loops + 1
  /\ entryLog' = <<>>
  /\ UNCHANGED <<now, started, inMenu, clock, inputs, timeouts>>

(* ------------------------------ hour ticker --------------------------- *)
\* Mutant of HourTick: night is not capped at 7.
HourTickNoCap(i, d) ==
  /\ i \in 1..Len(tickers)
  /\ tickers[i] = now
  /\ tickers' = [tickers EXCEPT ![i] = now + HOUR_MS]
  /\ IF ~started
       THEN UNCHANGED <<clock, anims>>
       ELSE /\ hour' = IF hour + 1 > 7 THEN 0 ELSE hour + 1
            /\ night' = IF hour + 1 > 7 THEN night + 1 ELSE night
            /\ power' = Max(0, power - d)
            /\ anims' = [a \in NameSet |-> [anims[a] EXCEPT !.active = ActiveAt(a, night')]]
  /\ entryLog' = <<>>
  /\ UNCHANGED <<now, started, inMenu, inputs, timeouts, loops, pendingBegin>>

\* Mutant of HourTick: power is not floored at 0.
HourTickNoFloor(i, d) ==
  /\ i \in 1..Len(tickers)
  /\ tickers[i] = now
  /\ tickers' = [tickers EXCEPT ![i] = now + HOUR_MS]
  /\ IF ~started
       THEN UNCHANGED <<clock, anims>>
       ELSE /\ hour' = IF hour + 1 > 7 THEN 0 ELSE hour + 1
            /\ night' = IF hour + 1 > 7 THEN Min(7, night + 1) ELSE night
            /\ power' = power - d
            /\ anims' = [a \in NameSet |-> [anims[a] EXCEPT !.active = ActiveAt(a, night')]]
  /\ entryLog' = <<>>
  /\ UNCHANGED <<now, started, inMenu, inputs, timeouts, loops, pendingBegin>>

\* The setInterval callback of ticker i, with draw d = Math.floor(Math.random()*6).
HourTick(i, d) ==
  /\ i \in 1..Len(tickers)
  /\ tickers[i] = now
  /\ tickers' = [tickers EXCEPT ![i] = now + HOUR_MS]
  /\ IF ~started
       THEN UNCHANGED <<clock, anims>>
       ELSE /\ hour' = IF hour + 1 > 7 THEN 0 ELSE hour + 1
            /\ night' = IF hour + 1 > 7 THEN Min(7, night + 1) ELSE night
            /\ power' = Max(0, power - d)
            /\ anims' = [a \in NameSet |-> [anims[a] EXCEPT !.active = ActiveAt(a, night')]]
  /\ entryLog' = <<>>
  /\ UNCHANGED <<now, started, inMenu, inputs, timeouts, loops, pendingBegin>>

(* ------------------------ AI movement + entry rules ------------------- *)
\* Mutant of Skips: an agent in the office is evaluated again.
SkipsDormantOnly(s) == ~s.active

\* The early returns of an iteration: if(!a.active) return; if(a.inOffice) return;
Skips(s) == ~s.active \/ s.inOffice

\* Mutant of Relocate: the move does not touch lastSeen.
RelocateKeepsSeen(a, s, t, pick) ==
  [s EXCEPT !.cam = animDefs[a].allowed[pick], !.lastMove = t]

\* Mutant of Relocate: lastSeen takes the instant of the previous move.
RelocateSeenAtOldMove(a, s, t, pick) ==
  [s EXCEPT !.cam = animDefs[a].allowed[pick], !.lastMove = t, !.lastSeen = s.lastMove]

\* Mutant of Relocate: cam takes the drawn index instead of the array element.
RelocateToIndex(a, s, t, pick) ==
  [s EXCEPT !.cam = pick, !.lastMove = t, !.lastSeen = t]

\* The body of `if(now - a.lastMove > interval)`: a.cam = arr[...];
\* a.lastMove = now; a.lastSeen = now.
Relocate(a, s, t, pick) ==
  [s EXCEPT !.cam = animDefs[a].allowed[pick], !.lastMove = t, !.lastSeen = t]

\* Mutant of Seen: an open monitor shows every agent, whatever camera is selected.
SeenOnAnyCam(s) == monitorOpen

\* The monitor shows agent state s: monitorOpen, and the grid (monitorSingle
\* === null) or the agent's camera is selected.
Seen(s) == monitorOpen /\ (monitorSingle = null \/ s.cam = monitorSingle)

\* Mutant of JustMoved: lulla's rule without the timing condition.
JustMovedAlways(s, t, interval100) == TRUE

\* now - a.lastMove < interval * 0.45, on agent state s at instant t.
JustMoved(s, t, interval100) == (t - s.lastMove) * 10000 < interval100 * 45

\* Mutant of AgentTick: the entry rules are evaluated first, on the state the
\* agent had before this iteration moved and observed it.
AgentTickRulesFirst(a, s, t, pick) ==
  LET act == ActiveAt(a, night)
      s0  == [s EXCEPT !.active = act]
      interval100 == Interval100(a, night)
      moves == (t - s0.lastMove) * 100 > interval100
      s1  == IF moves THEN Relocate(a, s0, t, pick) ELSE s0
      s2  == IF Seen(s1) THEN [s1 EXCEPT !.lastSeen = t] ELSE s1
      rustIn  == a = "rust" /\ t - s0.lastSeen > UNSEEN_MS /\ ~s0.inOffice
      valeIn  == a = "vale" /\ s0.cam = TriggerCam[a] /\ ~doorRightClosed
      patchIn == a = "patch" /\ s0.cam = TriggerCam[a] /\ ~doorLeftClosed
      lullaIn == /\ a = "lulla" /\ s0.cam = TriggerCam[a] /\ ~doorRightClosed
                 /\ JustMoved(s0, t, interval100)
      s6  == IF rustIn \/ valeIn \/ patchIn \/ lullaIn
               THEN [s2 EXCEPT !.inOffice = TRUE] ELSE s2
      log == (IF rustIn THEN <<a>> ELSE <<>>) \o (IF valeIn THEN <<a>> ELSE <<>>)
             \o (IF patchIn THEN <<a>> ELSE <<>>) \o (IF lullaIn THEN <<a>> ELSE <<>>)
  IN IF Skips(s0) THEN [st |-> s0, log |-> <<>>] ELSE [st |-> s6, log |-> log]

\* One iteration of the forEach of updateAI for agent a in state s at instant t;
\* pick is the index drawn by Math.floor(Math.random()*arr.length), plus one.
\* The result is the agent's new state and the names passed to triggerEntry.
AgentTick(a, s, t, pick) ==
  LET act == ActiveAt(a, night)
      s0  == [s EXCEPT !.active = act]
      interval100 == Interval100(a, night)
      moves == (t - s0.lastMove) * 100 > interval100
      s1  == IF moves THEN Relocate(a, s0, t, pick) ELSE s0
      s2  == IF Seen(s1) THEN [s1 EXCEPT !.lastSeen = t] ELSE s1
      rustIn  == a = "rust" /\ t - s2.lastSeen > UNSEEN_MS /\ ~s2.inOffice
      s3  == IF rustIn THEN [s2 EXCEPT !.inOffice = TRUE] ELSE s2
      valeIn  == a = "vale" /\ s3.cam = TriggerCam[a] /\ ~doorRightClosed
      s4  == IF valeIn THEN [s3 EXCEPT !.inOffice = TRUE] ELSE s3
      patchIn == a = "patch" /\ s4.cam = TriggerCam[a] /\ ~doorLeftClosed
      s5  == IF patchIn THEN [s4 EXCEPT !.inOffice = TRUE] ELSE s4
      lullaIn == /\ a = "lulla" /\ s5.cam = TriggerCam[a] /\ ~doorRightClosed
                 /\ JustMoved(s5, t, interval100)
      s6  == IF lullaIn THEN [s5 EXCEPT !.inOffice = TRUE] ELSE s5
      log == (IF rustIn THEN <<a>> ELSE <<>>) \o (IF valeIn THEN <<a>> ELSE <<>>)
             \o (IF patchIn THEN <<a>> ELSE <<>>) \o (IF lullaIn THEN <<a>> ELSE <<>>)
  IN IF Skips(s0) THEN [st |-> s0, log |-> <<>>] ELSE [st |-> s6, log |-> log]

\* The names passed to triggerEntry by the iterations for Names[1..i], in order.
RECURSIVE EntriesUpTo(_, _, _)
EntriesUpTo(i, t, picks) ==
  IF i = 0 THEN <<>>
  ELSE EntriesUpTo(i - 1, t, picks)
         \o AgentTick(Names[i], anims[Names[i]], t, picks[Names[i]]).log

\* The setTimeout records of triggerEntry for a sequence of names, armed at t.
\* game is bookkeeping: the number of startNewGame calls made before the arming.
Armed(names, t) ==
  [j \in 1..Len(names) |-> [name |-> names[j], due |-> t + BREACH_MS, game |-> Games]]

\* The relocation test of updateAI for agent a at instant t.
Moves(a, t) ==
  /\ ActiveAt(a, night) /\ ~anims[a].inOffice
  /\ (t - anims[a].lastMove) * 100 > Interval100(a, night)

\* The indices Math.random() can draw for agent a in the frame at instant t:
\* it is called for a relocating agent only.
PickRange(a, t) == IF Moves(a, t) THEN 1..Len(animDefs[a].allowed) ELSE {1}

\* The draws of one frame.
Picks(t) ==
  {[vale |-> v, patch |-> p, lulla |-> l, rust |-> r] :
     v \in PickRange("vale", t), p \in PickRange("patch", t),
     l \in PickRange("lulla", t), r \in PickRange("rust", t)}

\* loop's call updateAI(Date.now()), with the random draws of this frame.
UpdateAI(picks) ==
  /\ loops > 0
  /\ now <= MaxTime
  /\ UNCHANGED <<now, started, inMenu, clock, inputs, tickers, loops, pendingBegin>>
  /\ anims' = [a \in NameSet |-> AgentTick(a, anims[a], now, picks[a]).st]
  /\ entryLog' = EntriesUpTo(Len(Names), now, picks)
  /\ timeouts' = timeouts \o Armed(entryLog', now)

\* s with its i-th element removed.
RemoveAt(s, i) == [j \in 1..(Len(s) - 1) |-> IF j < i THEN s[j] ELSE s[j + 1]]

\* Mutant of TimeoutFire: the expiry does not refresh lastMove.
TimeoutFireKeepsLastMove(i) ==
  /\ i \in 1..Len(timeouts)
  /\ timeouts[i].due = now
  /\ anims' = IF timeouts[i].name \in DOMAIN anims
                THEN [anims EXCEPT ![timeouts[i].name].inOffice = FALSE]
                ELSE anims
  /\ timeouts' = RemoveAt(timeouts, i)
  /\ entryLog' = <<>>
  /\ UNCHANGED <<now, started, inMenu, clock, inputs, tickers, loops, pendingBegin>>

\* The setTimeout callback of triggerEntry, firing when due.
TimeoutFire(i) ==
  /\ i \in 1..Len(timeouts)
  /\ timeouts[i].due = now
  /\ anims' = IF timeouts[i].name \in DOMAIN anims
                THEN [anims EXCEPT ![timeouts[i].name].inOffice = FALSE,
                                   ![timeouts[i].name].lastMove = now]
                ELSE anims
  /\ timeouts' = RemoveAt(timeouts, i)
  /\ entryLog' = <<>>
  /\ UNCHANGED <<now, started, inMenu, clock, inputs, tickers, loops, pendingBegin>>

(* ------------------------------ player taps --------------------------- *)
\* The thumbnails tapped in the exploration (null: a tap outside every thumbnail).
TapThumbs == {null, 3}

\* Mutant of HandleTap: closing the monitor keeps the selected camera.
HandleTapKeepsSingle(bar, thumb, left) ==
  /\ now <= MaxTime
  /\ ~inMenu /\ started
  /\ IF bar
       THEN /\ monitorOpen' = ~monitorOpen
            /\ UNCHANGED <<monitorSingle, doorLeftClosed, doorRightClosed>>
       ELSE IF monitorOpen
         THEN /\ monitorSingle' = thumb
              /\ UNCHANGED <<monitorOpen, doorLeftClosed, doorRightClosed>>
         ELSE IF left
           THEN /\ doorLeftClosed' = ~doorLeftClosed
                /\ UNCHANGED <<monitorOpen, monitorSingle, doorRightClosed>>
           ELSE /\ doorRightClosed' = ~doorRightClosed
                /\ UNCHANGED <<monitorOpen, monitorSingle, doorLeftClosed>>
  /\ entryLog' = <<>>
  /\ UNCHANGED <<now, started, inMenu, clock, anims, timeouts, tickers, loops, pendingBegin>>

\* handleTap(x, y) during play.  bar: y > H*0.80; thumb: the camPositions id
\* whose thumbnail contains (x, y), or null; left: x < W*0.5.
HandleTap(bar, thumb, left) ==
  /\ now <= MaxTime
  /\ ~inMenu /\ started
  /\ IF bar
       THEN /\ monitorOpen' = ~monitorOpen
            /\ monitorSingle' = IF monitorOpen' THEN monitorSingle ELSE null
            /\ UNCHANGED <<doorLeftClosed, doorRightClosed>>
       ELSE IF monitorOpen
         THEN /\ monitorSingle' = thumb
              /\ UNCHANGED <<monitorOpen, doorLeftClosed, doorRightClosed>>
         ELSE IF left
           THEN /\ doorLeftClosed' = ~doorLeftClosed
                /\ UNCHANGED <<monitorOpen, monitorSingle, doorRightClosed>>
           ELSE /\ doorRightClosed' = ~doorRightClosed
                /\ UNCHANGED <<monitorOpen, monitorSingle, doorLeftClosed>>
  /\ entryLog' = <<>>
  /\ UNCHANGED <<now, started, inMenu, clock, anims, timeouts, tickers, loops, pendingBegin>>

(* ------------------------------ time source --------------------------- *)
\* Gaps of wall-clock time between two events that are not timer expiries.
Gaps == {2200}

\* Due instants of every pending timer.
Deadlines == {timeouts[i].due : i \in 1..Len(timeouts)} \cup {tickers[i] : i \in 1..Len(tickers)}

\* Date.now() advances to t; a timer fires when it is due, so time does not
\* pass a pending deadline.
TimePasses(t) ==
  /\ t > now
  /\ \A dl \in Deadlines : t <= dl
  /\ \/ t <= MaxTime
     \/ t \in Deadlines /\ t <= MaxTime + BREACH_MS
  /\ now' = t
  /\ entryLog' = <<>>
  /\ UNCHANGED <<started, inMenu, clock, anims, inputs, timeouts, tickers, loops, pendingBegin>>

Next ==
  \/ StartNewGame
  \/ BeginGamePlay
  \/ \E i \in 1..Len(tickers), d \in 0..5 : HourTick(i, d)
  \/ \E picks \in Picks(now) : UpdateAI(picks)
  \/ \E i \in 1..Len(timeouts) : TimeoutFire(i)
  \/ \E bar \in BOOLEAN, thumb \in TapThumbs, left \in BOOLEAN : HandleTap(bar, thumb, left)
  \/ \E t \in {now + g : g \in Gaps} \cup Deadlines : TimePasses(t)

\* The exploration starts at script load, or in a game in progress.
Start ==
  \/ Init
  \/ Background(7, BREACH_MS)
  \/ \E k \in StartTicks : Background(k, 0)
  \/ Paused(39, 0)

Spec == Start /\ [][Next]_vars

(* Timers fire: wall-clock time advances, and a due setTimeout or            *)
(* setInterval callback is run by the event loop.                            *)
FairSpec ==
  /\ (Init \/ Paused(39, 0))
  /\ [][Next]_vars
  /\ WF_vars(\E t \in {now + g : g \in Gaps} \cup Deadlines : TimePasses(t))
  /\ WF_vars(\E i \in 1..Len(timeouts) : TimeoutFire(i))
  /\ WF_vars(\E i \in 1..Len(tickers), d \in 0..5 : HourTick(i, d))

\* The exploration starts when a tab hidden on night 5 comes back, at the
\* instant the hour tick that begins night 6 is due.
Resume == \E since \in HiddenFor : Hidden(39, BREACH_MS, since)

ResumeSpec == Resume /\ [][Next]_vars

(* ============================== properties ============================ *)
\* Number of occurrences of x in the sequence s.
Count(s, x) == Cardinality({i \in 1..Len(s) : s[i] = x})

\* Pending auto-resolve timers of agent a.
TimersOf(a) == {i \in 1..Len(timeouts) : timeouts[i].name = a}

AnyHourTick == \E i \in 1..Len(tickers), d \in 0..5 : HourTick(i, d)

AnyUpdateAI == \E picks \in Picks(now) : UpdateAI(picks)

AnyTimeoutFire == \E i \in 1..Len(timeouts) : TimeoutFire(i)

\* C1: hour stays in 0..7 and night in 1..7; an hour tick either adds 1 to
\* hour and keeps night, or (hour was 7) sets hour to 0 and night to
\* min(7, night + 1); night grows only on such a wrap, by exactly 1.
C1_ClockShape ==
  /\ [](hour \in 0..7 /\ night \in 1..7)
  /\ [][AnyHourTick =>
          \/ hour' = hour + 1 /\ night' = night
          \/ hour = 7 /\ hour' = 0 /\ night' = (IF night + 1 < 7 THEN night + 1 ELSE 7)]_vars
  /\ [][night' > night => hour = 7 /\ hour' = 0 /\ night' = night + 1]_vars

\* C1 witness: the ticker has wrapped hour 7 of night 7, and night is still 7.
C1_Witness ==
  /\ night = 7 /\ hour = 0 /\ started
  /\ \E i \in 1..Len(tickers) : tickers[i] = now + HOUR_MS

\* C2: an hour tick leaves power at max(0, power - delta) for a delta in 0..5;
\* power stays in 0..100, and only starting a new game raises it.
C2_PowerDrain ==
  /\ [](power \in 0..100)
  /\ [][AnyHourTick =>
          \E delta \in 0..5 : power' = (IF power - delta > 0 THEN power - delta ELSE 0)]_vars
  /\ [][power' > power => StartNewGame]_vars

\* C2 witness: a tick drew more than the power left (2 at the start), leaving 0.
C2_Witness ==
  /\ power = 0 /\ night = 5 /\ hour = 0 /\ started
  /\ \E i \in 1..Len(tickers) : tickers[i] = now + HOUR_MS

\* C3: a breach arms one timer due 2200 ms later; inOffice is cleared by that
\* timer's expiry only, at its due instant, which also sets lastMove to that
\* instant; every breach is eventually resolved.
C3_BreachResolves ==
  /\ [][\A a \in NameSet :
          /\ (~anims[a].inOffice /\ anims'[a].inOffice) =>
               \E i \in TimersOf(a)' : timeouts'[i].due = now + 2200
          /\ (anims[a].inOffice /\ ~anims'[a].inOffice) =>
               /\ \E i \in TimersOf(a) : timeouts[i].due = now /\ TimeoutFire(i)
               /\ anims'[a].lastMove = now
          /\ (anims[a].inOffice /\ now' # now) =>
               \E i \in TimersOf(a) : now' <= timeouts[i].due]_vars
  /\ \A a \in NameSet : anims[a].inOffice ~> ~anims[a].inOffice

\* C3 witness: an agent breached in the frame that relocated it has just been
\* released by its timer, 2200 ms later.
C3_Witness ==
  \E a \in NameSet :
    /\ ~anims[a].inOffice /\ anims[a].lastMove = now
    /\ anims[a].lastSeen = now - 2200
    /\ TimersOf(a) = {}

\* C4 (as stated): in a frame at which rust was last seen more than 30000 ms
\* ago, the monitor is closed and rust is not in the office, rust enters the
\* office and exactly one entry event carries its id.
C4_Original ==
  [][(AnyUpdateAI /\ now - anims["rust"].lastSeen > 30000
        /\ ~monitorOpen /\ ~anims["rust"].inOffice)
       => anims'["rust"].inOffice /\ Count(entryLog', "rust") = 1]_vars

\* C4 (amended): the same, for a rust that is active (night >= 5) and that the
\* frame does not relocate.
C4_RustUnseen ==
  [][(AnyUpdateAI /\ now - anims["rust"].lastSeen > 30000
        /\ ~monitorOpen /\ ~anims["rust"].inOffice
        /\ night >= 5 /\ anims'["rust"].lastMove = anims["rust"].lastMove)
       => anims'["rust"].inOffice /\ Count(entryLog', "rust") = 1]_vars

\* C4 witness: the latest frame breached rust, unseen since the frame before,
\* SinceFrame ms earlier, with the monitor closed.
C4_Witness ==
  /\ anims["rust"].inOffice /\ Count(entryLog, "rust") = 1
  /\ anims["rust"].lastSeen = now - SinceFrame /\ ~monitorOpen

\* C5: each agent has at most one pending auto-resolve timer, and has one
\* exactly while inOffice; a frame over a breached agent emits no entry event
\* for it and leaves its timer as it is.
C5_NoRetrigger ==
  /\ [](\A a \in NameSet :
          /\ Cardinality(TimersOf(a)) <= 1
          /\ anims[a].inOffice <=> TimersOf(a) # {})
  /\ [][AnyUpdateAI =>
          \A a \in NameSet : anims[a].inOffice =>
            /\ Count(entryLog', a) = 0
            /\ {timeouts'[i] : i \in TimersOf(a)'} = {timeouts[i] : i \in TimersOf(a)}]_vars

\* C5 witness: the latest frame breached agent b and passed over agent a,
\* already in the office with its one timer.
C5_Witness ==
  \E a, b \in NameSet :
    /\ anims[a].inOffice /\ Count(entryLog, a) = 0 /\ Cardinality(TimersOf(a)) = 1
    /\ Count(entryLog, b) = 1

\* The state startNewGame is claimed to give agent a at instant t.
Defaults(a, t) ==
  [cam |-> animDefs[a].start, lastMove |-> t, lastSeen |-> t, inOffice |-> FALSE]

\* C6 (as stated): startNewGame leaves every agent at its starting location,
\* out of the office, with lastMove and lastSeen at the reset time.
C6_Original ==
  [][StartNewGame =>
       \A a \in NameSet :
         /\ anims'[a].cam = Defaults(a, now).cam
         /\ anims'[a].inOffice = Defaults(a, now).inOffice
         /\ anims'[a].lastMove = Defaults(a, now).lastMove
         /\ anims'[a].lastSeen = Defaults(a, now).lastSeen]_vars

\* C7 (as stated): when beginGamePlay has initialised the flags of a new game,
\* night = 1, hour = 0, power = 100, lulla is active and vale, patch and rust
\* are not.
C7_Original ==
  [][BeginGamePlay =>
       /\ night' = 1 /\ hour' = 0 /\ power' = 100
       /\ \A a \in NameSet : anims'[a].active = (a = "lulla")]_vars

\* C8 (as stated): an auto-resolve timer armed before a startNewGame and
\* firing after it changes no field of any agent.
C8_Original ==
  [][\A i \in 1..Len(timeouts) :
       (TimeoutFire(i) /\ timeouts[i].game < Games) => anims' = anims]_vars

\* C9: after a frame and after an hour tick every agent's active flag is
\* (night >= activeFrom); a frame leaves the location, the timestamps and the
\* breach flag of an agent with night < activeFrom as they were, and emits no
\* entry event for it.
C9_ActiveFlag ==
  /\ [][(AnyUpdateAI \/ AnyHourTick) =>
          \A a \in NameSet : anims'[a].active = (night' >= animDefs[a].activeFrom)]_vars
  /\ [][AnyUpdateAI =>
          \A a \in NameSet : night < animDefs[a].activeFrom =>
            /\ anims'[a].cam = anims[a].cam
            /\ anims'[a].lastMove = anims[a].lastMove
            /\ anims'[a].lastSeen = anims[a].lastSeen
            /\ anims'[a].inOffice = anims[a].inOffice
            /\ Count(entryLog', a) = 0
            /\ {timeouts'[i] : i \in TimersOf(a)'} = {timeouts[i] : i \in TimersOf(a)}]_vars

\* C9 witness: night 3 has just begun; a frame has relocated vale, now active,
\* and left the dormant rust as built at script load.
C9_Witness ==
  /\ night = 3 /\ hour = 0
  /\ anims["vale"].active /\ anims["vale"].lastMove = now
  /\ ~anims["rust"].active /\ anims["rust"].lastMove < now - HOUR_MS
  /\ anims["rust"].cam = 6 /\ ~anims["rust"].inOffice

\* The multiplier table of the claim, in hundredths; 100 outside 1..7.
C10_Table(n) ==
  CASE n = 1 -> 160 [] n = 2 -> 125 [] n = 3 -> 100 [] n = 4 -> 95
    [] n = 5 -> 85 [] n = 6 -> 60 [] n = 7 -> 50 [] OTHER -> 100

\* The effective interval of the claim, in hundredths of a ms.
C10_Interval(a, n) ==
  IF animDefs[a].baseInterval * C10_Table(n) > 70000
    THEN animDefs[a].baseInterval * C10_Table(n) ELSE 70000

\* C10: a frame relocates an active agent that is not in the office exactly
\* when now - lastMove > max(700, baseInterval * multiplier(night)), with the
\* fixed multiplier table and 1.0 outside nights 1..7; the interval is never
\* below 700 ms.
C10_MoveInterval ==
  /\ [](\A a \in NameSet, n \in 0..9 :
          /\ Interval100(a, n) = C10_Interval(a, n)
          /\ Interval100(a, n) >= 70000)
  /\ [][AnyUpdateAI =>
          \A a \in NameSet :
            (night >= animDefs[a].activeFrom /\ ~anims[a].inOffice) =>
              (anims'[a].lastMove # anims[a].lastMove
                 <=> (now - anims[a].lastMove) * 100 > C10_Interval(a, night))]_vars

\* C10 witness: on night 5 one frame, SinceFrame ms after the previous one,
\* relocated lulla (interval 27200) and not rust (interval 35700).
C10_Witness ==
  /\ night = 5
  /\ anims["lulla"].lastMove = now /\ anims["lulla"].lastSeen = now
  /\ anims["rust"].active /\ anims["rust"].lastMove = now - SinceFrame

\* C11: a frame that relocates an agent (the new location may be the old one)
\* leaves that agent's lastSeen and lastMove both at the frame's timestamp,
\* whatever the monitor shows.
C11_SeenAtMove ==
  [][AnyUpdateAI =>
       \A a \in NameSet :
         anims'[a].lastMove # anims[a].lastMove =>
           /\ anims'[a].lastMove = now
           /\ anims'[a].lastSeen = now]_vars

\* C11 witness: on night 6 rust, whose only location is 6, has just relocated
\* to the location it was at, while the monitor shows camera 3 only.
C11_Witness ==
  /\ night = 6 /\ monitorOpen /\ monitorSingle = 3
  /\ anims["rust"].cam = 6 /\ ~anims["rust"].inOffice
  /\ anims["rust"].lastMove = now /\ anims["rust"].lastSeen = now

\* C12: for an agent that is active and not in the office when a frame starts,
\* the frame sets lastSeen to now if the monitor is open and shows the grid or
\* the agent's location after the move step; otherwise (monitor closed, or
\* another camera selected) an agent the frame did not relocate keeps its
\* lastSeen.
C12_Surveillance ==
  [][AnyUpdateAI =>
       \A a \in NameSet :
         (night >= animDefs[a].activeFrom /\ ~anims[a].inOffice) =>
           IF monitorOpen /\ (monitorSingle = null \/ anims'[a].cam = monitorSingle)
             THEN anims'[a].lastSeen = now
             ELSE anims'[a].lastMove = anims[a].lastMove =>
                    anims'[a].lastSeen = anims[a].lastSeen]_vars

\* C12 witness: with camera 3 selected, a frame has refreshed the lastSeen of
\* an agent sitting at 3 and left that of an active agent elsewhere as it was.
C12_Witness ==
  /\ monitorOpen /\ monitorSingle = 3
  /\ \E a, b \in NameSet :
       /\ anims[a].active /\ ~anims[a].inOffice /\ anims[a].cam = 3
       /\ anims[a].lastMove < now /\ anims[a].lastSeen = now
       /\ anims[b].active /\ ~anims[b].inOffice /\ anims[b].cam # 3
       /\ anims[b].lastSeen < now

\* C13: in every reachable state every agent's location is one of the
\* agent's allowed locations, breached or not.
C13_CamAllowed ==
  \A a \in NameSet :
    \E i \in 1..Len(animDefs[a].allowed) : anims[a].cam = animDefs[a].allowed[i]

\* C13 witness: an agent is in the office after relocating away from its
\* start location.
C13_Witness ==
  \E a \in NameSet :
    /\ anims[a].inOffice /\ anims[a].cam # animDefs[a].start
    /\ anims[a].lastMove = anims[a].lastSeen

\* C14: a frame leaves the location, lastMove, lastSeen and the breach flag of
\* an agent in the office unchanged; the only step that changes one of them is
\* the expiry of the agent's auto-resolve timer, which clears the flag, sets
\* lastMove to the expiry instant and keeps the location and lastSeen.
C14_BreachedFrozen ==
  /\ [][AnyUpdateAI =>
          \A a \in NameSet : anims[a].inOffice =>
            /\ anims'[a].cam = anims[a].cam
            /\ anims'[a].lastMove = anims[a].lastMove
            /\ anims'[a].lastSeen = anims[a].lastSeen
            /\ anims'[a].inOffice]_vars
  /\ [][\A a \in NameSet :
          (/\ anims[a].inOffice
           /\ <<anims'[a].cam, anims'[a].lastMove, anims'[a].lastSeen, anims'[a].inOffice>>
                # <<anims[a].cam, anims[a].lastMove, anims[a].lastSeen, anims[a].inOffice>>)
            => /\ \E i \in TimersOf(a) : TimeoutFire(i)
               /\ ~anims'[a].inOffice /\ anims'[a].lastMove = now
               /\ anims'[a].cam = anims[a].cam
               /\ anims'[a].lastSeen = anims[a].lastSeen]_vars

\* C14 witness: with the monitor grid open, the latest frame breached another
\* agent and left the lastSeen of an agent already in the office in the past.
C14_Witness ==
  /\ monitorOpen /\ monitorSingle = null
  /\ \E a, b \in NameSet :
       /\ anims[a].inOffice /\ anims[a].lastSeen < now /\ Count(entryLog, a) = 0
       /\ a # b /\ Count(entryLog, b) = 1

\* C15: no step (frame, hour tick, timer expiry, tap, menu click, passage of
\* time) moves any agent's lastSeen backwards.
C15_SeenMonotone ==
  [][\A a \in NameSet : anims'[a].lastSeen >= anims[a].lastSeen]_vars

\* C15 witness: on night 5 a frame with the monitor open has advanced rust's
\* lastSeen to now without relocating it.
C15_Witness ==
  /\ night = 5 /\ ~anims["rust"].inOffice
  /\ anims["rust"].lastSeen = now
  /\ anims["rust"].lastMove = now - SinceFrame

\* C17 (as stated): the trigger location of vale's rule and that of patch's
\* rule are each one of the agent's own allowed locations, so whenever a frame
\* is about to relocate vale or patch, one of its draws takes the agent to the
\* trigger location of its rule.
C17_Original ==
  \A a \in {"vale", "patch"} :
    Moves(a, now) =>
      \E pick \in PickRange(a, now) : Relocate(a, anims[a], now, pick).cam = TriggerCam[a]

\* The Movement Scheduler run over all agents on the state of the frame.
C18_Moved(picks) ==
  [a \in NameSet |->
     LET s == [anims[a] EXCEPT !.active = (night >= animDefs[a].activeFrom)]
     IN IF s.active /\ ~s.inOffice /\ (now - s.lastMove) * 100 > Interval100(a, night)
          THEN [s EXCEPT !.cam = animDefs[a].allowed[picks[a]],
                         !.lastMove = now, !.lastSeen = now]
          ELSE s]

\* The Surveillance Tracker run over all agents of st.
C18_Observed(st) ==
  [a \in NameSet |->
     IF /\ st[a].active /\ ~st[a].inOffice
        /\ monitorOpen /\ (monitorSingle = null \/ st[a].cam = monitorSingle)
       THEN [st[a] EXCEPT !.lastSeen = now]
       ELSE st[a]]

\* The entry rule of agent a on its state s.
C18_Enters(a, s) ==
  /\ s.active /\ ~s.inOffice
  /\ \/ a = "rust" /\ now - s.lastSeen > 30000
     \/ a = "vale" /\ s.cam = 3 /\ ~doorRightClosed
     \/ a = "patch" /\ s.cam = 6 /\ ~doorLeftClosed
     \/ /\ a = "lulla" /\ s.cam = 3 /\ ~doorRightClosed
        /\ (now - s.lastMove) * 10000 < Interval100(a, night) * 45

\* The three phases in turn: the state they leave and the entry events, in
\* roster order.
C18_Phased(picks) ==
  LET o == C18_Observed(C18_Moved(picks))
  IN [st  |-> [a \in NameSet |->
                 IF C18_Enters(a, o[a]) THEN [o[a] EXCEPT !.inOffice = TRUE] ELSE o[a]],
      log |-> SelectSeq(Names, LAMBDA a : C18_Enters(a, o[a]))]

\* C18: for every state and every draw, the frame (one agent at a time: move,
\* observe, evaluate) leaves the agents as the three phases run one after the
\* other over all agents do, emits the same entry events in the same order,
\* and arms one 2200 ms timer per event.
C18_PhaseOrder ==
  [][\A picks \in Picks(now) :
       UpdateAI(picks) =>
         /\ anims' = C18_Phased(picks).st
         /\ entryLog' = C18_Phased(picks).log
         /\ Len(timeouts') = Len(timeouts) + Len(entryLog')
         /\ \A j \in 1..Len(entryLog') :
              /\ timeouts'[Len(timeouts) + j].name = entryLog'[j]
              /\ timeouts'[Len(timeouts) + j].due = now + 2200]_vars

\* C18 witness: one frame relocated vale to camera 3 and breached it on that
\* location, and refreshed, through the monitor grid, the lastSeen of a rust
\* that did not move.
C18_Witness ==
  /\ monitorOpen /\ monitorSingle = null
  /\ anims["vale"].inOffice /\ anims["vale"].cam = 3
  /\ anims["vale"].lastMove = now /\ entryLog = <<"vale">>
  /\ ~anims["rust"].inOffice /\ anims["rust"].active
  /\ anims["rust"].lastSeen = now /\ anims["rust"].lastMove < now

\* C16 (as stated): a frame breaches lulla only at camera 3, with the right
\* door open, less than 0.45 x interval after lulla's most recent relocation.
\* lastSeen is never earlier than the most recent relocation (a relocation
\* sets it, and it never goes back), so such a breach finds lastSeen less
\* than 0.45 x interval old.
C16_Original ==
  [][(AnyUpdateAI /\ ~anims["lulla"].inOffice /\ anims'["lulla"].inOffice) =>
       /\ anims'["lulla"].cam = 3 /\ ~doorRightClosed
       /\ (now - anims'["lulla"].lastSeen) * 10000 < C10_Interval("lulla", night) * 45]_vars

\* C16 (amended): lulla enters the office only in a frame, at camera 3 with the
\* right door open, less than 0.45 x interval after its lastMove (the later of
\* its latest relocation and its latest breach expiry); a frame that does not
\* relocate a lulla whose lastMove is at least that old does not breach it.
C16_LullaTiming ==
  /\ [][(~anims["lulla"].inOffice /\ anims'["lulla"].inOffice) =>
          /\ AnyUpdateAI
          /\ anims'["lulla"].cam = 3 /\ ~doorRightClosed
          /\ (now - anims'["lulla"].lastMove) * 10000
               < C10_Interval("lulla", night) * 45]_vars
  /\ [][(/\ AnyUpdateAI
         /\ anims'["lulla"].lastMove = anims["lulla"].lastMove
         /\ (now - anims["lulla"].lastMove) * 10000 >= C10_Interval("lulla", night) * 45)
          => anims'["lulla"].inOffice = anims["lulla"].inOffice]_vars

\* C16 witness: a frame has breached a lulla that it did not relocate and whose
\* lastMove, later than its lastSeen, is the instant of a breach expiry.
C16_Witness ==
  /\ anims["lulla"].inOffice /\ Count(entryLog, "lulla") = 1
  /\ anims["lulla"].lastSeen < anims["lulla"].lastMove
  /\ anims["lulla"].lastMove < now

\* C19 (as stated): a frame that finds vale at camera 3 with the right door
\* open does not relocate it and leaves it in the office.
C19_Original ==
  [][(AnyUpdateAI /\ anims["vale"].cam = 3 /\ ~doorRightClosed) =>
       /\ anims'["vale"].cam = 3
       /\ anims'["vale"].lastMove = anims["vale"].lastMove
       /\ anims'["vale"].inOffice]_vars

\* C19 (amended): a frame that finds an active vale (night >= 3) at camera 3
\* with the right door open, no more than the move interval after vale's
\* lastMove, does not relocate it and leaves it in the office; the breach
\* expiry keeps the location and sets lastMove to the expiry instant; vale is
\* in the office only at camera 3.
C19_ValeStays ==
  /\ [][(/\ AnyUpdateAI /\ anims["vale"].cam = 3 /\ ~doorRightClosed
         /\ night >= 3
         /\ (now - anims["vale"].lastMove) * 100 <= C10_Interval("vale", night))
          => /\ anims'["vale"].cam = 3
             /\ anims'["vale"].lastMove = anims["vale"].lastMove
             /\ anims'["vale"].inOffice]_vars
  /\ [][(anims["vale"].inOffice /\ ~anims'["vale"].inOffice) =>
          /\ anims'["vale"].cam = anims["vale"].cam
          /\ anims'["vale"].lastMove = now]_vars
  /\ [](anims["vale"].inOffice => anims["vale"].cam = 3)

\* C19 witness: after a breach expiry refreshed its lastMove, a frame has
\* breached vale again, at camera 3, without relocating it.
C19_Witness ==
  /\ anims["vale"].inOffice /\ anims["vale"].cam = 3
  /\ Count(entryLog, "vale") = 1
  /\ anims["vale"].lastSeen < anims["vale"].lastMove
  /\ anims["vale"].lastMove < now

\* C20: a rust that is out of the office with lastSeen at most 30000 ms old
\* was last seen no earlier than its last move; and on nights 6 and 7 no
\* step, whatever the monitor and the doors are, breaches a rust that is out
\* of the office and was last seen no earlier than its last move, or makes
\* its lastSeen earlier than its lastMove: a frame that finds it unseen for
\* more than 30000 ms relocates it first.  So from such a state rust is not
\* breached while night >= 6.
C20_RustOutrunsTimeout ==
  /\ [](~anims["rust"].inOffice /\ now - anims["rust"].lastSeen <= 30000
          => anims["rust"].lastSeen >= anims["rust"].lastMove)
  /\ [][(/\ night >= 6 /\ ~anims["rust"].inOffice
         /\ anims["rust"].lastSeen >= anims["rust"].lastMove)
          => /\ ~anims'["rust"].inOffice
             /\ anims'["rust"].lastSeen >= anims'["rust"].lastMove]_vars

\* C20 witness: on night 6, with the monitor closed, a frame has relocated
\* rust 2200 ms after the frame that relocated patch and not rust; rust is not
\* in the office.  The second frame found rust's interval of 25200 ms elapsed:
\* from the states of Hidden that is the rust last seen 31200 ms before it.
C20_Witness ==
  /\ night = 6 /\ ~monitorOpen
  /\ ~anims["rust"].inOffice
  /\ anims["rust"].lastMove = now /\ anims["rust"].lastSeen = now
  /\ anims["patch"].lastMove = now - 2200
  /\ TimersOf("rust") = {} /\ entryLog = <<>>

AnyHandleTap ==
  \E bar \in BOOLEAN, thumb \in TapThumbs, left \in BOOLEAN : HandleTap(bar, thumb, left)

\* C21: whenever the monitor is closed no camera is selected; a step selects
\* a camera only while the monitor is open; a tap made with the monitor open
\* changes neither door, and a door changes only by a tap made with the
\* monitor closed, which leaves it closed.
C21_MonitorDoors ==
  /\ [](~monitorOpen => monitorSingle = null)
  /\ [][(monitorSingle' # monitorSingle /\ monitorSingle' # null) =>
          AnyHandleTap /\ monitorOpen /\ monitorOpen']_vars
  /\ [][(AnyHandleTap /\ monitorOpen) =>
          doorLeftClosed' = doorLeftClosed /\ doorRightClosed' = doorRightClosed]_vars
  /\ [][(doorLeftClosed' # doorLeftClosed \/ doorRightClosed' # doorRightClosed) =>
          AnyHandleTap /\ ~monitorOpen /\ ~monitorOpen']_vars

\* C21 witness: a frame ran with camera 3 selected (it refreshed the lastSeen
\* of the agent at 3 only); since then the monitor was closed, which cleared
\* the selection, and the left door was closed.
C21_Witness ==
  /\ ~monitorOpen /\ monitorSingle = null /\ doorLeftClosed
  /\ \E a, b \in NameSet :
       /\ anims[a].active /\ ~anims[a].inOffice /\ anims[a].cam = 3
       /\ anims[a].lastMove < now /\ anims[a].lastSeen = now
       /\ anims[b].active /\ ~anims[b].inOffice /\ anims[b].cam # 3
       /\ anims[b].lastSeen < now

====
